---- MODULE Spec2Model ----
(***************************************************************************)
(* Streaming transcoding relay (GET /compress): the request handler, its   *)
(* event callbacks and the filename resolver, modelled from                *)
(* src/unnamed/part_000 (the disconnect-aware variant of the service).     *)
(*                                                                         *)
(* One record per request holds the handler's closure variables            *)
(* (isClientConnected, ffmpegCommand), the handler's position at its two   *)
(* awaits, the Express response (headersSent, status, headers, body) and   *)
(* the observable state of the collaborators the handler wires together:   *)
(* the source stream, the engine process and the pipe into the response.   *)
(***************************************************************************)
EXTENDS Integers, Sequences, FiniteSets, TLC

\* Chunks the engine may write to its output before it stops.
MaxOut == 2
\* Chunks the source stream can deliver to the engine.
MaxSrc == 2

\* In-flight requests of the model.
Reqs == {1}

\* req.query.url as the handler sees it: undefined, the empty string, or a
\* non-empty string.
NoUrl == <<"undefined">>
EmptyUrl == << >>

VARIABLES req, call

vars == <<req, call>>

----------------------------------------------------------------------------
\* Strings are sequences of one-character strings.

FILENAME == <<"f","i","l","e","n","a","m","e">>
MP4 == <<".","m","p","4">>
MKV == <<".","m","k","v">>
AVI == <<".","a","v","i">>
MOV == <<".","m","o","v">>
WEBM == <<".","w","e","b","m">>
FLV == <<".","f","l","v">>
PDF == <<".","p","d","f">>
VIDEO == <<"v","i","d","e","o">>
COMPRESSED == <<"c","o","m","p","r","e","s","s","e","d","_">>
HTTP == <<"h","t","t","p",":","/","/","h">>
ATTACHMENT == <<"a","t","t",";"," ">>
QUOTES == {"'", "\""}

\* const videoExts = ['.mp4', '.mkv', '.avi', '.mov', '.webm', '.flv']
videoExts == {MP4, MKV, AVI, MOV, WEBM, FLV}

\* The first index k >= i with s[k] in set, Len(s) + 1 when there is none.
RECURSIVE FirstIn(_, _, _)
FirstIn(s, i, set) ==
    IF i > Len(s) THEN Len(s) + 1
    ELSE IF s[i] \in set THEN i ELSE FirstIn(s, i + 1, set)

\* The last index k <= i with s[k] in set, 0 when there is none.
RECURSIVE LastIn(_, _, _)
LastIn(s, i, set) ==
    IF i < 1 THEN 0
    ELSE IF s[i] \in set THEN i ELSE LastIn(s, i - 1, set)

IsAt(s, i, w) == i + Len(w) - 1 <= Len(s) /\ SubSeq(s, i, i + Len(w) - 1) = w

EndsWith(s, w) == Len(w) <= Len(s) /\ SubSeq(s, Len(s) - Len(w) + 1, Len(s)) = w

\* The group ((['"]).*?\2|[^;\n]*) matched at position g: a quoted run up to
\* the next same quote on the line, otherwise the run up to ';' or a newline.
Group1(s, g) ==
    LET bare == SubSeq(s, g, FirstIn(s, g, {";", "\n"}) - 1)
    IN  IF g <= Len(s) /\ s[g] \in QUOTES
        THEN LET m == FirstIn(s, g + 1, {s[g], "\n"})
             IN  IF m <= Len(s) /\ s[m] = s[g] THEN SubSeq(s, g, m) ELSE bare
        ELSE bare

\* /filename[^;=\n]*=(...)/ tried at position i: 'filename', then characters
\* other than ';', '=' and newline, then '=', then the group.
MatchAt(s, i) ==
    LET k == FirstIn(s, i + Len(FILENAME), {";", "=", "\n"})
    IN  IF IsAt(s, i, FILENAME) /\ k <= Len(s) /\ s[k] = "="
        THEN [matched |-> TRUE, group |-> Group1(s, k + 1)]
        ELSE [matched |-> FALSE, group |-> << >>]

\* RegExp.exec: the leftmost position at which the pattern matches.
RECURSIVE Exec(_, _)
Exec(s, i) ==
    IF i > Len(s) THEN [matched |-> FALSE, group |-> << >>]
    ELSE IF MatchAt(s, i).matched THEN MatchAt(s, i) ELSE Exec(s, i + 1)

\* .replace(/['"]/g, '')
StripQuotes(s) == SelectSeq(s, LAMBDA ch : ch \notin QUOTES)

Letters == {"a","b","c","d","e","f","h","i","k","l","m","n","o","p","t","v","w","x"}

\* new URL(url): a scheme, '//' and a host are required (anything else throws
\* here); pathname runs from the first '/' after the host to '?' or '#'.
ParseUrl(u) ==
    LET colon == FirstIn(u, 1, {":"})
        host  == colon + 3
        slash == FirstIn(u, host, {"/", "?", "#"})
        stop  == FirstIn(u, host, {"?", "#"})
        valid == /\ colon > 1 /\ colon <= Len(u)
                 /\ \A i \in 1..(colon - 1) : u[i] \in Letters
                 /\ IsAt(u, colon + 1, <<"/", "/">>)
                 /\ slash > host
    IN  IF ~valid THEN [ok |-> FALSE, pathname |-> << >>]
        ELSE IF slash > Len(u) \/ u[slash] # "/" THEN [ok |-> TRUE, pathname |-> <<"/">>]
        ELSE [ok |-> TRUE, pathname |-> SubSeq(u, slash, stop - 1)]

\* path.basename: the last segment, trailing slashes dropped.
RECURSIVE DropTrailingSlashes(_)
DropTrailingSlashes(p) ==
    IF Len(p) > 0 /\ p[Len(p)] = "/" THEN DropTrailingSlashes(SubSeq(p, 1, Len(p) - 1))
    ELSE p

basename(p) ==
    LET q == DropTrailingSlashes(p)
    IN  SubSeq(q, LastIn(q, Len(q), {"/"}) + 1, Len(q))

\* path.extname: from the last '.' on, empty when there is no '.', when the
\* only '.' leads the name, or for '..'.
extname(name) ==
    LET dot == LastIn(name, Len(name), {"."})
    IN  IF dot <= 1 \/ name = <<".", ".">> THEN << >>
        ELSE SubSeq(name, dot, Len(name))

\* String.prototype.toLowerCase on the characters in use.
LowerChar(ch) ==
    CASE ch = "M" -> "m" [] ch = "P" -> "p" [] ch = "K" -> "k" [] ch = "V" -> "v"
      [] OTHER -> ch

toLowerCase(s) == [i \in 1..Len(s) |-> LowerChar(s[i])]

\* An absent header (undefined).
NoHeader == <<"undefined">>

\* The body of getFileName's try block: the header's filename token with its
\* quotes removed; otherwise the URL's last path segment, with .mp4 appended
\* unless it has a video extension. new URL throws on a URL it cannot parse.
getFileNameTry(contentDisposition, url) ==
    LET m == IF contentDisposition = NoHeader \/ contentDisposition = << >>
             THEN [matched |-> FALSE, group |-> << >>]
             ELSE Exec(contentDisposition, 1)
        u == ParseUrl(url)
        fileName == basename(u.pathname)
        ext == toLowerCase(extname(fileName))
    IN  IF m.matched /\ m.group # << >>
        THEN [threw |-> FALSE, value |-> StripQuotes(m.group)]
        ELSE IF ~u.ok
        THEN [threw |-> TRUE, value |-> << >>]
        ELSE [threw |-> FALSE,
              value |-> IF ext = << >> \/ ext \notin videoExts
                        THEN fileName \o MP4 ELSE fileName]

\* function getFileName(contentDisposition, url): the try block, and
\* 'video.mp4' when it throws.
getFileName(contentDisposition, url) ==
    LET t == getFileNameTry(contentDisposition, url)
    IN  IF t.threw THEN [threw |-> FALSE, value |-> VIDEO \o MP4] ELSE t

\* Header values and URLs the resolver is applied to.
Q(s) == <<"\"">> \o s \o <<"\"">>
Param(v) == ATTACHMENT \o FILENAME \o <<"=">> \o v

Headers ==
    { NoHeader,
      << >>,
      <<"a","t","t">>,
      Param(Q(<<"x">> \o MKV)),
      Param(Q(<<"x">> \o PDF)),
      Param(Q(<<"x">>)),
      Param(Q(<< >>)),
      Param(Q(<<"x",".","M","P","4">>)),
      Param(<<"x">> \o MP4),
      Param(<<"x">>),
      Param(<< >>),
      Param(<<"'">> \o <<"x">> \o WEBM \o <<"'", ";", " ", "n", "=", "1">>),
      FILENAME \o <<"*", "=", "U", "'", "'", "x">> \o FLV,
      FILENAME \o <<"*", "=", "U", "'", "'", "y">> \o FLV \o <<";", " ">>
          \o FILENAME \o <<"=">> \o Q(<<"x">> \o MKV),
      <<"x">> \o FILENAME \o <<"=", "a", ";", " ">>
          \o FILENAME \o <<"=">> \o Q(<<"x">> \o MKV) }

Urls ==
    { HTTP \o <<"/","c","l","i","p">>,
      HTTP \o <<"/","m","o","v","i","e">> \o WEBM,
      HTTP \o <<"/","a","/","b">> \o MKV \o <<"?","x","=","1">>,
      HTTP \o <<"/","d","o","c">> \o PDF,
      HTTP \o <<"/">>,
      HTTP,
      HTTP \o <<"/","d","i","r","/">>,
      HTTP \o <<"/">> \o MP4,
      HTTP \o <<"/","x",".","M","P","4">>,
      HTTP \o <<"/","a",".","b","/","c">>,
      <<"c","l","i","p">>,
      <<"/","a","/","b">> \o MP4,
      << >> }

\* The URL and the probe headers the requests of the relay use.
RequestUrls == { HTTP \o <<"/","c","l","i","p">> }
ProbeHeaders == { NoHeader, Param(Q(<<"x">> \o MKV)) }

----------------------------------------------------------------------------
\* The state of one request before it arrives.
NewCtx ==
    [ pc                |-> "idle",      \* idle, probing, fetching, piped, rejected, caught, unhandled
      videoUrl          |-> NoUrl,
      isClientConnected |-> TRUE,        \* let isClientConnected = true
      clientGone        |-> FALSE,       \* the transport to the client has closed
      ffmpegCommand     |-> FALSE,       \* let ffmpegCommand = null
      engine            |-> "none",      \* none, alive, finished, crashed, killed
      spawned           |-> 0,           \* engine processes started
      kills             |-> 0,           \* ffmpegCommand.kill('SIGKILL') calls
      raised            |-> FALSE,       \* an exception is propagating
      probe             |-> "none",      \* none, pending, ok, failed
      open              |-> "none",      \* none, pending, ok, failed
      originalFileName  |-> << >>,       \* getFileName(...) of the probe's reply
      disposition       |-> << >>,       \* the filename of Content-Disposition, once set
      contentType       |-> "",          \* Content-Type, once set
      headersSent       |-> FALSE,       \* res.headersSent
      statusCode        |-> 0,           \* status on the wire, 0 while unsent
      statusCalls       |-> 0,           \* res.status(..).send(..) calls
      resEnded          |-> FALSE,       \* the response has been ended
      out               |-> 0,           \* chunks the engine has written
      body              |-> << >>,       \* chunks written to the response
      srcRead           |-> 0,           \* source chunks the engine has read
      srcErr            |-> FALSE,       \* the source stream emitted 'error'
      engEvent          |-> "none",      \* none, error, end: the engine's final event
      sample            |-> "none",      \* the last 'progress' sample handled, none before the first
      outcome           |-> "none" ]     \* none, DONE, FAILED: the first terminal transition

\* The request's terminal transitions: the first one decides the outcome.
fail(c) == [c EXCEPT !.outcome = IF @ = "none" THEN "FAILED" ELSE @]
done(c) == [c EXCEPT !.outcome = IF @ = "none" THEN "DONE" ELSE @]

\* res.status(code).send(text): the status line, headers and body go out and
\* the response is ended.
send(c, code) ==
    [c EXCEPT !.statusCode = code, !.statusCalls = @ + 1,
              !.headersSent = TRUE, !.resEnded = TRUE]

\* ffmpegCommand.kill('SIGKILL'): a live process dies; on a process that has
\* already gone the call may throw (killThrows).
kill(c, killThrows) ==
    [c EXCEPT !.kills = @ + 1,
              !.engine = IF @ = "alive" THEN "killed" ELSE @,
              !.raised = killThrows /\ c.engine # "alive"]

\* A cleanup that lets the exception of kill escape.
cleanupNoCatch(c, killThrows) ==
    IF c.ffmpegCommand THEN kill(c, killThrows) ELSE c

\* A cleanup that never signals the process.
cleanupNoKill(c, killThrows) == c

\* function cleanup(): kill the command if there is one, logging what kill throws.
cleanup(c, killThrows) ==
    IF c.ffmpegCommand
    THEN [kill(c, killThrows) EXCEPT !.raised = FALSE]
    ELSE c

\* A catch block that cleans up and answers nothing.
catchBlockNoSend(c, killThrows) ==
    [cleanup(fail(c), killThrows) EXCEPT !.pc = "caught"]

\* catch (error): cleanup, then a 500 unless the headers have gone out.
catchBlock(c, killThrows) ==
    LET c1 == [cleanup(fail(c), killThrows) EXCEPT !.pc = "caught"]
    IN  IF ~c1.headersSent THEN send(c1, 500) ELSE c1

----------------------------------------------------------------------------
\* The callbacks, as functions of the request's state.

\* req.on('close'): record the disconnect.
onClose(c) == [c EXCEPT !.isClientConnected = FALSE]

\* A stream 'error' callback that answers whether or not the headers are out.
onInputErrorNoHeaderCheck(c, killThrows) ==
    send([cleanup(fail(c), killThrows) EXCEPT !.srcErr = TRUE], 500)

\* A stream 'error' callback that answers but leaves the engine running.
onInputErrorNoCleanup(c, killThrows) ==
    LET c1 == [fail(c) EXCEPT !.srcErr = TRUE]
    IN  IF ~c1.headersSent THEN send(c1, 500) ELSE c1

\* response.data.on('error'): cleanup, then a 500 unless the headers have gone out.
onInputError(c, killThrows) ==
    LET c1 == [cleanup(fail(c), killThrows) EXCEPT !.srcErr = TRUE]
    IN  IF ~c1.headersSent THEN send(c1, 500) ELSE c1

\* An 'error' callback that answers whether or not the headers are out.
onErrorNoHeaderCheck(c, killThrows) ==
    LET c1 == IF c.isClientConnected THEN send(c, 500) ELSE c
    IN  cleanup([fail(c1) EXCEPT !.engEvent = "error"], killThrows)

\* An 'error' callback that does not look at the disconnect flag.
onErrorNoFlag(c, killThrows) ==
    LET c1 == IF ~c.headersSent THEN send(c, 500) ELSE c
    IN  cleanup([fail(c1) EXCEPT !.engEvent = "error"], killThrows)

\* ffmpeg .on('error'): a 500 when the client is connected and the headers are
\* unsent; in every case cleanup.
onError(c, killThrows) ==
    LET c1 == IF c.isClientConnected /\ ~c.headersSent THEN send(c, 500) ELSE c
    IN  cleanup([fail(c1) EXCEPT !.engEvent = "error"], killThrows)

\* The samples a 'progress' event can carry: no object at all, an object
\* without percent, an object with percent.
Samples == {"missing", "nopercent", "percent"}

\* progress.percent: reading a property of a missing object throws.
readPercent(p) == [threw |-> p = "missing", defined |-> p = "percent"]

\* A 'progress' callback that reads progress.percent of whatever it is given.
onProgressUnguarded(c, p) == [c EXCEPT !.raised = readPercent(p).threw]

\* ffmpeg .on('progress'): logs the rounded percent of a sample that has one
\* while the client is connected, and does nothing otherwise.
onProgress(c, p) ==
    IF p # "missing" /\ readPercent(p).defined /\ c.isClientConnected
    THEN [c EXCEPT !.raised = readPercent(p).threw]
    ELSE c

\* ffmpeg .on('end'): cleanup.
onEnd(c, killThrows) == cleanup([done(c) EXCEPT !.engEvent = "end"], killThrows)

\* The chunks the engine has written, in the order it wrote them.
EngineOutput(c) == [i \in 1..c.out |-> i]

\* A pipe that hands on the newest chunk instead of the oldest one it holds.
writeNewest(c) ==
    [c EXCEPT !.body = Append(@, c.out),
              !.headersSent = TRUE,
              !.statusCode = IF c.headersSent THEN @ ELSE 200]

\* The pipe writes one chunk to the response; the first write sends the
\* headers with the default status.
write(c) ==
    [c EXCEPT !.body = Append(@, EngineOutput(c)[Len(@) + 1]),
              !.headersSent = TRUE,
              !.statusCode = IF c.headersSent THEN @ ELSE 200]

\* A pipe with { end: false }: the response is left open when the output ends.
endResponseNever(c) == c

\* The pipe ends the response ({ end: true }) when the engine's output ends.
endResponse(c) ==
    [c EXCEPT !.resEnded = TRUE,
              !.headersSent = TRUE,
              !.statusCode = IF c.headersSent THEN @ ELSE 200]

\* res.setHeader('Content-Disposition', ...); res.setHeader('Content-Type', ...)
setHeaders(c) ==
    [c EXCEPT !.disposition = COMPRESSED \o c.originalFileName,
              !.contentType = "video/mp4"]

\* ffmpegCommand = ffmpeg(response.data)...; ffmpegCommand.pipe(res): the
\* command is created and the pipe starts the engine.
startEngine(c) ==
    [c EXCEPT !.ffmpegCommand = TRUE,
              !.engine = "alive", !.spawned = @ + 1, !.pc = "piped"]

\* A wiring that starts the engine without setting the response headers.
wireNoHeaders(c) == startEngine([c EXCEPT !.open = "ok"])

\* The wiring after a successful open: headers, the stream's error listener,
\* the command with its listeners, and the pipe, which starts the engine.
wire(c) == startEngine(setHeaders([c EXCEPT !.open = "ok"]))

\* A route handler that probes whatever the url parameter is.
compressNoCheck(c, url) ==
    [c EXCEPT !.videoUrl = url, !.pc = "probing", !.probe = "pending"]

\* The top of the route handler: without a url the request is answered 400;
\* otherwise the close listener is registered and the HEAD probe is issued.
compress(c, url) ==
    IF url = NoUrl \/ url = EmptyUrl
    THEN [send(fail(c), 400) EXCEPT !.videoUrl = url, !.pc = "rejected"]
    ELSE [c EXCEPT !.videoUrl = url, !.pc = "probing", !.probe = "pending"]

\* The error-handling middleware: a 500 unless the headers have gone out.
errorMiddleware(c) ==
    LET c1 == [fail(c) EXCEPT !.pc = "unhandled"]
    IN  IF ~c1.headersSent THEN send(c1, 500) ELSE c1

\* The spec's state of a request.
State(c) ==
    IF c.outcome # "none" THEN c.outcome
    ELSE CASE c.pc = "idle" -> "IDLE"
           [] c.pc = "probing" -> "PROBING"
           [] c.pc = "fetching" -> "FETCHING"
           [] OTHER -> IF c.body = << >> THEN "TRANSCODING" ELSE "STREAMING"

----------------------------------------------------------------------------
\* An update in which isClientConnected is one variable of the module, shared
\* by every request, instead of a variable of the handler's closure.
SetShared(r, c) ==
    /\ req' = [q \in DOMAIN req |->
                 IF q = r THEN c
                 ELSE [req[q] EXCEPT !.isClientConnected = c.isClientConnected]]
    /\ UNCHANGED call

\* A callback of request r updates the variables of r's own closure.
Set(r, c) == req' = [req EXCEPT ![r] = c] /\ UNCHANGED call

\* No call of the resolver outside the handler.
NoCall == [contentDisposition |-> NoHeader, url |-> << >>, returned |-> FALSE,
           threw |-> FALSE, value |-> << >>]

Init == req = [r \in Reqs |-> NewCtx] /\ call = NoCall

\* app.get('/compress'): a request arrives and the route handler runs up to
\* its first await.
Arrive(r) ==
    /\ req[r].pc = "idle"
    /\ \E u \in {NoUrl, EmptyUrl} \cup RequestUrls : Set(r, compress(req[r], u))

\* app.use((err, req, res, next)): Express hands the request to the error
\* middleware instead of the route handler.
ErrorMiddleware(r) ==
    /\ req[r].pc = "idle"
    /\ Set(r, errorMiddleware(req[r]))

\* The client's connection closes; the close listener, when registered, runs.
ClientClose(r) ==
    /\ req[r].pc # "idle"
    /\ ~req[r].clientGone
    /\ LET c == [req[r] EXCEPT !.clientGone = TRUE]
       IN  Set(r, IF c.pc \in {"rejected", "unhandled"} THEN c ELSE onClose(c))

\* await axios(head) resolves: the filename is resolved and the GET is issued.
ProbeOk(r) ==
    /\ req[r].pc = "probing"
    /\ \E h \in ProbeHeaders :
         Set(r, [req[r] EXCEPT !.probe = "ok",
                               !.originalFileName = getFileName(h, req[r].videoUrl).value,
                               !.open = "pending", !.pc = "fetching"])

\* await axios(head) rejects (network error, timeout, status >= 400).
ProbeFail(r) ==
    /\ req[r].pc = "probing"
    /\ \E kt \in BOOLEAN : Set(r, catchBlock([req[r] EXCEPT !.probe = "failed"], kt))

\* await axios(get) resolves with the open stream.
OpenOk(r) ==
    /\ req[r].pc = "fetching"
    /\ IF req[r].headersSent
       THEN \E kt \in BOOLEAN : Set(r, catchBlock([req[r] EXCEPT !.open = "ok"], kt))
       ELSE Set(r, wire(req[r]))

\* await axios(get) rejects.
OpenFail(r) ==
    /\ req[r].pc = "fetching"
    /\ \E kt \in BOOLEAN : Set(r, catchBlock([req[r] EXCEPT !.open = "failed"], kt))

\* The engine reads a chunk of the source stream.
EngineRead(r) ==
    /\ req[r].engine = "alive"
    /\ ~req[r].srcErr
    /\ req[r].srcRead < MaxSrc
    /\ Set(r, [req[r] EXCEPT !.srcRead = @ + 1])

\* The engine writes a chunk of output.
EngineEmit(r) ==
    /\ req[r].engine = "alive"
    /\ req[r].out < MaxOut
    /\ Set(r, [req[r] EXCEPT !.out = @ + 1])

\* The engine process exits by itself, normally or not.
EngineExit(r) ==
    /\ req[r].engine = "alive"
    /\ \E how \in {"finished", "crashed"} : Set(r, [req[r] EXCEPT !.engine = how])

\* A pipe that keeps writing to a response whose client has gone.
ForwardAfterClose(r) ==
    /\ req[r].pc = "piped"
    /\ Len(req[r].body) < req[r].out
    /\ ~req[r].resEnded
    /\ Set(r, write(req[r]))

\* ffmpegCommand.pipe(res, { end: true }): the next chunk of engine output is
\* written to the response while the response is open.
Forward(r) ==
    /\ req[r].pc = "piped"
    /\ Len(req[r].body) < req[r].out
    /\ ~req[r].clientGone
    /\ ~req[r].resEnded
    /\ Set(r, write(req[r]))

\* The engine's output ends after the last chunk: the pipe ends the response.
PipeEnd(r) ==
    /\ req[r].engine \in {"finished", "crashed", "killed"}
    /\ Len(req[r].body) = req[r].out
    /\ ~req[r].clientGone
    /\ ~req[r].resEnded
    /\ Set(r, endResponse(req[r]))

\* The running command emits 'progress' with some sample.
Progress(r) ==
    /\ req[r].engine = "alive"
    /\ \E p \in Samples : Set(r, [onProgress(req[r], p) EXCEPT !.sample = p])

\* The source stream emits 'error'.
InputError(r) ==
    /\ req[r].pc = "piped"
    /\ ~req[r].srcErr
    /\ \E kt \in BOOLEAN : Set(r, onInputError(req[r], kt))

\* The command emits 'error': the engine failed, was killed, or the library
\* gave up on it (its input or output stream broke).
EngineError(r) ==
    /\ req[r].engine \in {"alive", "crashed", "killed"}
    /\ req[r].engEvent = "none"
    /\ \E kt \in BOOLEAN : Set(r, onError(req[r], kt))

\* The command emits 'end': the engine finished and its output has been
\* handed on (or the client is gone and nothing reads it any more).
EngineEnd(r) ==
    /\ req[r].engine = "finished"
    /\ req[r].engEvent = "none"
    /\ \/ req[r].clientGone
       \/ Len(req[r].body) = req[r].out /\ req[r].resEnded
    /\ \E kt \in BOOLEAN : Set(r, onEnd(req[r], kt))

Next ==
    \E r \in Reqs :
        \/ Arrive(r)
        \/ ErrorMiddleware(r)
        \/ ClientClose(r)
        \/ ProbeOk(r)
        \/ ProbeFail(r)
        \/ OpenOk(r)
        \/ OpenFail(r)
        \/ EngineRead(r)
        \/ EngineEmit(r)
        \/ EngineExit(r)
        \/ Forward(r)
        \/ PipeEnd(r)
        \/ Progress(r)
        \/ InputError(r)
        \/ EngineError(r)
        \/ EngineEnd(r)

Spec == Init /\ [][Next]_vars

\* The replies of the two upstream requests arrive, the pipe keeps moving
\* what it holds, and an engine process that is running or has stopped
\* reports its end or its error.
Fairness ==
    \A r \in Reqs :
        /\ WF_vars(ProbeOk(r) \/ ProbeFail(r))
        /\ WF_vars(OpenOk(r) \/ OpenFail(r))
        /\ WF_vars(Forward(r))
        /\ WF_vars(PipeEnd(r))
        /\ WF_vars(EngineExit(r) \/ EngineError(r) \/ EngineEnd(r))

FairSpec == Spec /\ Fairness

----------------------------------------------------------------------------
\* Two requests in flight at once, each with its own closure.  The engine's
\* reads of the source and its progress events, which change nothing but
\* their own record, are left out of this specification.

TwoReqs == {1, 2}

InitTwo == req = [r \in TwoReqs |-> NewCtx] /\ call = NoCall

NextTwo ==
    \E r \in TwoReqs :
        \/ Arrive(r)
        \/ ErrorMiddleware(r)
        \/ ClientClose(r)
        \/ ProbeOk(r)
        \/ ProbeFail(r)
        \/ OpenOk(r)
        \/ OpenFail(r)
        \/ EngineEmit(r)
        \/ EngineExit(r)
        \/ Forward(r)
        \/ PipeEnd(r)
        \/ InputError(r)
        \/ EngineError(r)
        \/ EngineEnd(r)

SpecTwo == InitTwo /\ [][NextTwo]_vars

----------------------------------------------------------------------------
\* The filename resolver on its own: one call on each header value and URL.

InitFileName ==
    /\ req = [r \in Reqs |-> NewCtx]
    /\ \E h \in Headers, u \in Urls :
         call = [contentDisposition |-> h, url |-> u, returned |-> FALSE,
                 threw |-> FALSE, value |-> << >>]

CallGetFileName ==
    /\ ~call.returned
    /\ LET res == getFileName(call.contentDisposition, call.url)
       IN  call' = [call EXCEPT !.returned = TRUE, !.threw = res.threw, !.value = res.value]
    /\ UNCHANGED req

SpecFileName == InitFileName /\ [][CallGetFileName]_vars

----------------------------------------------------------------------------
\* Properties.

Terminal(c) == State(c) \in {"DONE", "FAILED"}
MissingUrl(c) == c.videoUrl = NoUrl \/ c.videoUrl = EmptyUrl

\* C1: once the disconnect of a streaming request has been observed, the
\* engine reads no further chunk of the source stream, and the engine process
\* is eventually no longer alive.
C1_DisconnectStopsEngine ==
    /\ [][\A r \in Reqs :
            (State(req[r]) = "STREAMING" /\ ~req[r].isClientConnected)
                => req'[r].srcRead = req[r].srcRead]_vars
    /\ \A r \in Reqs :
         (State(req[r]) = "STREAMING" /\ ~req[r].isClientConnected)
             ~> (req[r].engine # "alive")

C3_MissingUrlIs400 ==
    \A r \in Reqs :
        (req[r].pc \notin {"idle", "unhandled"} /\ MissingUrl(req[r])) =>
            /\ req[r].pc = "rejected"
            /\ State(req[r]) = "FAILED"
            /\ req[r].statusCode = 400
            /\ req[r].statusCalls = 1
            /\ req[r].probe = "none"
            /\ req[r].open = "none"
            /\ req[r].engine = "none"
            /\ req[r].spawned = 0

C3_Witness ==
    \E r \in Reqs :
        req[r].pc = "rejected" /\ req[r].videoUrl = EmptyUrl /\ req[r].statusCode = 400

\* C4: after a failed probe the response is a 500 sent with no header set and
\* no body byte written before it; the open is never issued and the engine
\* is never created or started.
C4_ProbeFailureIs500 ==
    \A r \in Reqs :
        req[r].probe = "failed" =>
            /\ req[r].statusCode = 500
            /\ req[r].statusCalls = 1
            /\ req[r].body = << >>
            /\ req[r].disposition = << >>
            /\ req[r].contentType = ""
            /\ req[r].open = "none"
            /\ ~req[r].ffmpegCommand
            /\ req[r].engine = "none"
            /\ req[r].spawned = 0

C4_Witness ==
    \E r \in Reqs :
        req[r].probe = "failed" /\ req[r].statusCode = 500 /\ req[r].pc = "caught"

\* What a second cleanup may not change: everything but the count of kill calls.
SameButKills(c, d) == [d EXCEPT !.kills = c.kills] = c

\* C5: no exception ever leaves a handler, and in every reachable state a
\* cleanup raises nothing and a second cleanup after it raises nothing and
\* leaves the engine, the response and the bytes forwarded as the first left
\* them, also when the engine has already finished by itself.
C5_CleanupIdempotent ==
    \A r \in Reqs :
        /\ ~req[r].raised
        /\ \A kt1 \in BOOLEAN, kt2 \in BOOLEAN :
             LET c1 == cleanup(req[r], kt1)
                 c2 == cleanup(c1, kt2)
             IN  ~c1.raised /\ ~c2.raised /\ SameButKills(c1, c2)

C5_Witness ==
    \E r \in Reqs :
        /\ req[r].kills = 2
        /\ req[r].engine = "finished"
        /\ req[r].engEvent = "end"

\* C6: an engine 'error' that arrives with the headers already sent changes
\* neither the status nor the count of status calls, and the response is
\* then ended (or the client has gone).
C6_EngineErrorAfterHeaders ==
    /\ [][\A r \in Reqs :
            (req[r].engEvent = "none" /\ req'[r].engEvent = "error" /\ req[r].headersSent)
                => /\ req'[r].statusCode = req[r].statusCode
                   /\ req'[r].statusCalls = req[r].statusCalls]_vars
    /\ \A r \in Reqs :
         (req[r].engEvent = "error" /\ req[r].headersSent)
             ~> (req[r].resEnded \/ req[r].clientGone)

C6_Witness ==
    \E r \in Reqs :
        /\ req[r].engEvent = "error"
        /\ req[r].isClientConnected
        /\ req[r].body # << >>
        /\ req[r].statusCode = 200
        /\ req[r].statusCalls = 0
        /\ req[r].resEnded

\* C7: a request's status is sent at most once: a step taken with the headers
\* already sent makes no status call and changes no status code.
C7_StatusSentAtMostOnce ==
    /\ [](\A r \in Reqs : req[r].statusCalls <= 1)
    /\ [][\A r \in Reqs :
            req[r].headersSent =>
                /\ req'[r].headersSent
                /\ req'[r].statusCode = req[r].statusCode
                /\ req'[r].statusCalls = req[r].statusCalls]_vars

C7_Witness ==
    \E r \in Reqs :
        /\ req[r].srcErr
        /\ req[r].engEvent = "error"
        /\ req[r].isClientConnected
        /\ req[r].statusCode = 500
        /\ req[r].statusCalls = 1

C9_ErrorAfterDisconnectSuppressed ==
    [][\A r \in Reqs :
          (req[r].engEvent = "none" /\ req'[r].engEvent = "error" /\ ~req[r].isClientConnected)
              => /\ req'[r].statusCode = req[r].statusCode
                 /\ req'[r].statusCalls = req[r].statusCalls
                 /\ req'[r].headersSent = req[r].headersSent
                 /\ req'[r].resEnded = req[r].resEnded
                 /\ req'[r].kills = req[r].kills + 1]_vars

C9_Witness ==
    \E r \in Reqs :
        /\ req[r].engEvent = "error"
        /\ ~req[r].isClientConnected
        /\ ~req[r].headersSent
        /\ req[r].statusCalls = 0
        /\ req[r].kills >= 1

HasVideoExt(name) == \E e \in videoExts : EndsWith(toLowerCase(name), e)

\* C10: on every header value and URL getFileName returns without throwing,
\* and what it returns is non-empty and ends in a video extension.
C10_FileNameHasVideoExt ==
    call.returned =>
        /\ ~call.threw
        /\ call.value # << >>
        /\ HasVideoExt(call.value)

Contains(s, w) == \E i \in 1..Len(s) : IsAt(s, i, w)

\* C11: getFileName raises nothing; a header value that contains
\* filename="x.mkv" gives x.mkv whatever the URL is; without a header a URL
\* that parses gives its last path segment, with .mp4 appended unless the
\* segment has a video extension; without a header a URL that does not parse
\* gives video.mp4.
C11_FileNameResolution ==
    call.returned =>
        LET cd == call.contentDisposition
            u == ParseUrl(call.url)
            segment == basename(u.pathname)
        IN  /\ ~call.threw
            /\ (cd # NoHeader /\ Contains(cd, FILENAME \o <<"=">> \o Q(<<"x">> \o MKV)))
                  => call.value = <<"x">> \o MKV
            /\ (cd = NoHeader /\ u.ok)
                  => call.value = IF toLowerCase(extname(segment)) \in videoExts
                                  THEN segment ELSE segment \o MP4
            /\ (cd = NoHeader /\ ~u.ok) => call.value = VIDEO \o MP4

IsPrefix(s, t) == Len(s) <= Len(t) /\ s = SubSeq(t, 1, Len(s))

\* C12: in every state the chunks written to the response are a prefix of the
\* chunks the engine has written: same order, none repeated, none left out.
C12_ForwardedIsPrefix ==
    \A r \in Reqs : IsPrefix(req[r].body, EngineOutput(req[r]))

C12_Witness ==
    \E r \in Reqs : req[r].out >= 2 /\ req[r].body = EngineOutput(req[r])

HeadersSet(c) ==
    /\ c.disposition = COMPRESSED \o c.originalFileName
    /\ c.contentType = "video/mp4"
    /\ \E h \in ProbeHeaders : c.originalFileName = getFileName(h, c.videoUrl).value

\* C13: once the open has succeeded the response carries Content-Disposition
\* with compressed_<resolved name> and Content-Type video/mp4: they are set in
\* every state in which the engine has been started or a body chunk has been
\* written, they are unset before the open succeeds, and no step taken after
\* the first body chunk changes them.
C13_HeadersBeforeBody ==
    /\ [](\A r \in Reqs :
            /\ (req[r].engine # "none" \/ req[r].body # << >> \/ req[r].pc = "piped")
                  => HeadersSet(req[r])
            /\ req[r].pc \in {"idle", "probing", "fetching"}
                  => (req[r].disposition = << >> /\ req[r].contentType = ""))
    /\ [][\A r \in Reqs :
            req[r].body # << >>
                => /\ req'[r].disposition = req[r].disposition
                   /\ req'[r].contentType = req[r].contentType]_vars

C13_Witness ==
    \E r \in Reqs :
        /\ req[r].body # << >>
        /\ req[r].disposition = COMPRESSED \o <<"x">> \o MKV
        /\ req[r].contentType = "video/mp4"

Rank(st) ==
    CASE st = "IDLE" -> 0
      [] st = "PROBING" -> 1
      [] st = "FETCHING" -> 2
      [] st = "TRANSCODING" -> 3
      [] st = "STREAMING" -> 4
      [] OTHER -> 5

C15_ForwardMoves ==
    [][\A r \in Reqs : Rank(State(req'[r])) >= Rank(State(req[r]))]_vars

C15_OpenAfterProbe ==
    \A r \in Reqs : req[r].open # "none" => req[r].probe = "ok"

C15_EngineAfterProbeAndOpen ==
    \A r \in Reqs :
        /\ (req[r].spawned > 0 \/ req[r].engine # "none") => (req[r].probe = "ok" /\ req[r].open = "ok")
        /\ req[r].open = "failed" =>
              (req[r].statusCode = 500 /\ req[r].spawned = 0 /\ req[r].engine = "none")

C15_TerminalKeepsOutcome ==
    [][\A r \in Reqs : Terminal(req[r]) =>
            /\ State(req'[r]) = State(req[r])
            /\ req'[r].probe = req[r].probe
            /\ req'[r].open = req[r].open
            /\ req'[r].spawned = req[r].spawned]_vars

C15_NoForwardingInTerminal ==
    [][\A r \in Reqs : Terminal(req[r]) => req'[r].body = req[r].body]_vars

\* C15: the state of a request only moves forward; the open is issued only
\* after a successful probe; the engine is started only after probe and open
\* succeeded, and an open failure gives 500 with no engine; once a request is
\* DONE or FAILED its state stays, and no probe, open, engine start or
\* forwarding of a byte happens.
C15_ForwardOnlyAbsorbing ==
    /\ C15_ForwardMoves
    /\ [](C15_OpenAfterProbe /\ C15_EngineAfterProbeAndOpen)
    /\ C15_TerminalKeepsOutcome
    /\ C15_NoForwardingInTerminal

C16_DoneByEndEvent ==
    [][\A r \in Reqs : (State(req[r]) # "DONE" /\ State(req'[r]) = "DONE") =>
            /\ req[r].engEvent = "none" /\ req'[r].engEvent = "end"
            /\ ~req[r].srcErr]_vars

C16_DoneHasAllOutput ==
    \A r \in Reqs : State(req[r]) = "DONE" => req[r].body = EngineOutput(req[r])

\* C16: a request becomes DONE only by the engine's 'end' event, never after
\* an engine error or a source stream error, and in DONE every chunk the
\* engine wrote has been forwarded to the client.
C16_DoneOnlyAfterEndAndFlush ==
    C16_DoneByEndEvent /\ []C16_DoneHasAllOutput

\* C17: a step of one request (a disconnect, a stream error, an engine error,
\* a cleanup with its kill, or any other event) leaves the state of every
\* other request as it was; in particular the other request's
\* isClientConnected flag and its engine.
C17_RequestsIndependent ==
    [][\A r \in TwoReqs : \A q \in TwoReqs \ {r} :
            req'[r] # req[r] =>
                /\ req'[q] = req[q]
                /\ req'[q].isClientConnected = req[q].isClientConnected
                /\ req'[q].engine = req[q].engine
                /\ req'[q].kills = req[q].kills]_vars

C17_Witness ==
    \E r \in TwoReqs : \E q \in TwoReqs \ {r} :
        /\ ~req[r].isClientConnected
        /\ req[r].srcErr
        /\ req[r].engEvent = "error"
        /\ req[r].engine = "killed"
        /\ req[r].kills = 2
        /\ req[q].isClientConnected
        /\ req[q].engine = "alive"
        /\ req[q].kills = 0
        /\ req[q].body # << >>

C19_NoEngineStartAfterDisconnect ==
    [][\A r \in Reqs :
          (~req[r].isClientConnected /\ req[r].spawned = 0 /\ req[r].engine = "none") =>
              (req'[r].spawned = 0 /\ req'[r].engine = "none" /\ ~req'[r].ffmpegCommand)]_vars

\* The response is over: it has been ended, or the client's disconnect has
\* closed it.
ResponseOver(c) == c.resEnded \/ c.clientGone

Finished(c) == Terminal(c) /\ ResponseOver(c) /\ c.engine # "alive"

\* An event of the request is pending: a reply of the probe or of the open,
\* a chunk or the end of the output in the pipe, or an event of the engine.
Pending(r) ==
    \/ ProbeOk(r) \/ ProbeFail(r)
    \/ OpenOk(r) \/ OpenFail(r)
    \/ Forward(r) \/ PipeEnd(r)
    \/ EngineExit(r) \/ EngineError(r) \/ EngineEnd(r)

\* C20 as stated: with the replies and the events delivered fairly, a request
\* that has arrived reaches DONE or FAILED with its response ended and no
\* engine alive; and no reachable state has an open response and no event
\* pending.
C20_TerminatesWithResponseEnded ==
    /\ \A r \in Reqs :
          (req[r].pc # "idle") ~> (Terminal(req[r]) /\ req[r].resEnded /\ req[r].engine # "alive")
    /\ [](\A r \in Reqs : (req[r].pc # "idle" /\ ~ResponseOver(req[r])) => ENABLED Pending(r))

\* C20: with the replies and the events delivered fairly, a request that has
\* arrived reaches DONE or FAILED with its response over (ended, or closed by
\* the client's disconnect) and no engine alive, and stays so; and every
\* reachable state of an arrived request that is not yet there has an event
\* pending.
C20_EveryRequestTerminates ==
    /\ \A r \in Reqs : (req[r].pc # "idle") ~> [](Finished(req[r]))
    /\ [](\A r \in Reqs : (req[r].pc # "idle" /\ ~Finished(req[r])) => ENABLED Pending(r))

C20_Witness ==
    \E r \in Reqs :
        /\ Terminal(req[r])
        /\ req[r].engEvent = "error"
        /\ req[r].engine = "killed"
        /\ req[r].clientGone
        /\ ~req[r].resEnded
        /\ req[r].body # << >>
        /\ ~ENABLED Pending(r)

====
